---- MODULE Spec2Model ----
(***************************************************************************)
(* State machine of the WordPress collector: collect_wordpress_posts       *)
(* (collect_news.py) driving fetch_json_from_urls (nodriver_helper.py).    *)
(*                                                                         *)
(* A domain is a sequence of characters, so that sanitize_filename is      *)
(* computed and not assumed injective.  A post object is a record: kind    *)
(* "obj" is a JSON object, whose id is what post.get('id') returns (0      *)
(* stands for a missing, null or zero id, all falsy in Python); kind "str" *)
(* is an array item that is not an object (iterating a JSON object such as *)
(* a WordPress error body yields its keys, which are strings).             *)
(***************************************************************************)
EXTENDS Integers, Sequences, FiniteSets, TLC

\* ---------------------------------------------------------------- constants
PER_PAGE == 100

MAX_PAGES_PER_DOMAIN == 20

\* When several domains are listed, no site serves a full page of new posts
\* beyond this page number (a site listed alone serves them up to the cap).
ShallowPages == 2

\* At most this many calls of page.close() raise in one run.
MaxStaleTabs == 1

None == "None"

\* The driver's local data before JSON was extracted, and once it was.
NoData == [json |-> FALSE, items |-> << >>]

Json(items) == [json |-> TRUE, items |-> items]

\* file_path of a result that has no file (Python None).
NoPath == << >>

\* _collection_summary.json before it is written, and once it was.
NoFile == [written |-> FALSE, results |-> << >>]

\* wordpress-site-notes.json before it is written (or when it never is).
NoNotes == [written |-> FALSE, notes |-> << >>]

\* stats as process_collection_directory creates it.
NoStats ==
    [files_processed |-> 0, articles_new |-> 0, articles_skipped |-> 0,
     errors |-> 0, errors_list |-> << >>]

\* Python None in a field that otherwise holds a value <<v>>.
Nothing == << >>

\* A field of a raw post: the key is absent, or its value is null, a
\* string, an object with a 'rendered' string, or a number.
Absent == [shape |-> "absent", text |-> ""]

Null == [shape |-> "null", text |-> ""]

Str(t) == [shape |-> "str", text |-> t]

Rendered(t) == [shape |-> "dict", text |-> t]

Num == [shape |-> "num", text |-> "5"]

\* extract_json_from_content was not called yet; returned the parsed value;
\* raised the exception e.
NotExtracted == [kind |-> "none", value |-> << >>, error |-> None]

Parsed(v) == [kind |-> "ok", value |-> v, error |-> None]

ExtractError(e) == [kind |-> "raise", value |-> << >>, error |-> e]

RawPost(link, title, body, date_gmt, links) ==
    [link |-> link, title |-> title, content |-> body,
     date_gmt |-> date_gmt, links |-> links]

NoArticle == RawPost(Absent, Absent, Absent, Absent, "absent")

NoNormalized ==
    [url |-> "", title |-> "", article_text |-> "", source_domain |-> "",
     first_seen_timestamp_gmt |-> 0, publication_date |-> Nothing,
     publication_timestamp_gmt |-> Nothing, image_url |-> Nothing]

\* A function that was not called yet; that returned a value; that
\* returned an error message; that raised an exception it does not catch.
NotCalled == [kind |-> "none", data |-> NoNormalized, error |-> None]

Returned(d) == [kind |-> "ok", data |-> d, error |-> None]

Failed(msg) == [kind |-> "error", data |-> NoNormalized, error |-> msg]

Raised(e) == [kind |-> "raise", data |-> NoNormalized, error |-> e]

D1 == <<"a", ".", "b">>
D2 == <<"a", "_", "b">>

D3 == <<"c">>
\* Contents of the domains file (duplicates and colliding names included).
DomainLists == {<< >>, <<D1>>, <<D1, D1>>, <<D1, D2>>, <<D1, D3>>}

VARIABLES
    domains,                \* lines of the domains file, in order
    urls,                   \* the worklist handed to the driver
    url_metadata,           \* parallel list of <<url, domain, page_number>>
    domain_data,            \* per-domain state of the collector
    files,                  \* output files of timestamp_dir: path -> content
    i,                      \* index of the driver's current item (-1: none yet)
    pc,                     \* position of the single thread of control
    page,                   \* the driver's tab for the current item
    tabs,                   \* number of tabs the driver opened, still open
    stale_tabs,             \* history: closes that raised, tab still open
    content,                \* page text captured for the current item
    data,                   \* JSON extracted for the current item
    exc,                    \* str(e) of the exception caught for the item
    raising,                \* an exception is propagating out of the handler
    results,                \* the driver's result list (status per item)
    log,                    \* history: <<event, index>> in execution order
    parsed,                 \* history: post objects of parsed pages, per domain
    summary,                \* summary["results"]
    sites_needing_testing,
    summary_file,           \* content of _collection_summary.json
    test_urls,              \* the worklist of the diagnostic sub-run
    test_metadata,          \* parallel list of <<url, domain>>
    test_results,           \* domain -> outcome of its diagnostic request
    site_notes,             \* domain -> diagnostics entry
    notes_file,             \* content of wordpress-site-notes.json
    test_log,               \* history of the diagnostic sub-run
    source_dirs,            \* collection directories: name -> files
    out_files,              \* the normalizer's output_dir: path -> content
    out_writes,             \* history: path -> times opened for writing
    source_dir,             \* argument of the current normalization run
    listing,                \* names of os.listdir not yet visited
    articles,               \* array loaded from the current file
    items_done,             \* items of articles already handled
    stats,                  \* the run's statistics
    npc,                    \* position of the normalizer
    runs,                   \* history: one record per normalization run
    article,                \* argument of normalize_article
    normalized,             \* what normalize_article returned or raised
    raw_content,            \* argument of extract_json_from_content
    extracted               \* what extract_json_from_content returned or raised

\* State of the diagnostic sub-run of collect_wordpress_posts.
tvars == <<test_urls, test_metadata, test_results, site_notes, notes_file,
           test_log>>

\* State of collect_wordpress_posts and of the driver it calls.
cvars == <<domains, urls, url_metadata, domain_data, files, i, pc, page,
           tabs, stale_tabs, content, data, exc, raising, results, log, parsed, summary,
           sites_needing_testing, summary_file, tvars>>

\* State of process_collection_directory (normalize_news.py).
nvars == <<source_dirs, out_files, out_writes, source_dir, listing,
           articles, items_done, stats, npc, runs>>

\* Argument and result of one call of normalize_article.
avars == <<article, normalized>>

\* Argument and result of one call of extract_json_from_content.
xvars == <<raw_content, extracted>>

\* What a run of the collector leaves alone.
pvars == <<nvars, avars, xvars>>

vars == <<cvars, pvars>>

\* ------------------------------------------------------------------ helpers
Range(s) == {s[k] : k \in 1..Len(s)}

SanitizeChar(c) == IF c \in {".", "/", ":"} THEN "_" ELSE c

sanitize_filename(text) == [k \in 1..Len(text) |-> SanitizeChar(text[k])]

\* Path of a domain's output file inside timestamp_dir.
OutputPath(domain) == sanitize_filename(domain) \o <<".json">>

Url(domain, page_num) == [domain |-> domain, page |-> page_num]

build_domain_urls_Twice(ds) ==
    [k \in 1..(2 * Len(ds)) |->
        <<Url(ds[(k + 1) \div 2], 1), ds[(k + 1) \div 2], 1>>]

build_domain_urls(ds) == [k \in 1..Len(ds) |-> <<Url(ds[k], 1), ds[k], 1>>]

InitDomainData(ds) ==
    [d \in Range(ds) |-> [posts |-> << >>, pages_fetched |-> 0,
                          status |-> "pending", post_ids |-> {},
                          error |-> None]]

\* ------------------------------------------------------- the remote sites
Obj(n) == [kind |-> "obj", id |-> n]

NoIdPost == Obj(0)

StrItem == [kind |-> "str", id |-> 0]

\* Id of the k-th post of page p of a site's date-ordered result.
PostId(p, k) == (p - 1) * PER_PAGE + k

Run(first, n) == [k \in 1..n |-> Obj(first + k - 1)]

FullPage(p) == Run(PostId(p, 1), PER_PAGE)

\* A full page of new posts together with one post already seen (the last
\* post of the page before, or on page 1 the first post once more) and one
\* post without an id.
DupPage(p) ==
    IF p > 1
    THEN Run(PostId(p, 1) - 1, PER_PAGE + 1) \o <<NoIdPost>>
    ELSE FullPage(p) \o <<Obj(PostId(p, 1)), NoIdPost>>

\* Arrays on which the collector stops or fails: nothing, a page one post
\* short, a full page with a duplicate, a full page followed by an item
\* that is not an object, and a JSON object (a WordPress error body).
StoppingPages(p) ==
    { << >>,
      Run(PostId(p, 1), PER_PAGE - 1),
      DupPage(p),
      FullPage(p) \o <<StrItem>>,
      <<StrItem>> }

ContinuingPages(p) == {FullPage(p)}

ServesFull(url) == Len(domains) = 1 \/ url.page <= ShallowPages

\* What a request for url can produce: a failure of browser.get, a failure
\* of page.get_content, content holding no JSON, or content holding JSON.
Responses(url) ==
    {[kind |-> k, items |-> << >>] : k \in {"nav", "content", "extract"}}
    \cup {[kind |-> "json", items |-> d] :
             d \in StoppingPages(url.page)
                   \cup (IF ServesFull(url) THEN ContinuingPages(url.page)
                         ELSE {})}

\* ------------------------------------------------------------- on_success
IsNew_NoSeenCheck(post_id, post_ids) == post_id # 0

IsNew(post_id, post_ids) == post_id # 0 /\ post_id \notin post_ids

IsDuplicate(post_id) == post_id # 0

\* One iteration of the loop over data.  acc carries post_ids (mutated in
\* place), new_posts, duplicate_count and raised: post.get raised on an
\* item that is not an object, which ends the loop and the callback.
ScanStep_NoAdd(post, acc) ==
    IF acc.raised THEN acc
    ELSE IF post.kind # "obj" THEN [acc EXCEPT !.raised = TRUE]
    ELSE IF IsNew(post.id, acc.post_ids)
         THEN [acc EXCEPT !.new_posts = Append(@, post)]
    ELSE IF IsDuplicate(post.id)
         THEN [acc EXCEPT !.duplicate_count = @ + 1]
    ELSE acc

ScanStep(post, acc) ==
    IF acc.raised THEN acc
    ELSE IF post.kind # "obj" THEN [acc EXCEPT !.raised = TRUE]
    ELSE IF IsNew(post.id, acc.post_ids)
         THEN [acc EXCEPT !.post_ids = @ \cup {post.id},
                          !.new_posts = Append(@, post)]
    ELSE IF IsDuplicate(post.id)
         THEN [acc EXCEPT !.duplicate_count = @ + 1]
    ELSE acc

\* The loop over d[lo..hi], in order, left when an iteration raised (split
\* in halves to bound the depth of the evaluation).
RECURSIVE ScanRange(_, _, _, _)
ScanRange(d, lo, hi, acc) ==
    IF lo > hi THEN acc
    ELSE IF lo = hi THEN ScanStep(d[lo], acc)
    ELSE LET mid  == (lo + hi) \div 2
             left == ScanRange(d, lo, mid, acc)
         IN  IF left.raised THEN left
             ELSE ScanRange(d, mid + 1, hi, left)

ScanPosts(d, post_ids) ==
    ScanRange(d, 1, Len(d),
              [post_ids |-> post_ids, new_posts |-> << >>,
               duplicate_count |-> 0, raised |-> FALSE])

ShouldPaginate_OffByOne(new_count, duplicate_count, page_num) ==
    /\ new_count = PER_PAGE
    /\ duplicate_count = 0
    /\ page_num <= MAX_PAGES_PER_DOMAIN

ShouldPaginate(new_count, duplicate_count, page_num) ==
    /\ new_count = PER_PAGE
    /\ duplicate_count = 0
    /\ page_num < MAX_PAGES_PER_DOMAIN

\* json.dump of posts over the file at the domain's path, when posts is
\* not empty.
SavePosts_Append(fs, domain, posts) ==
    IF posts # << >>
    THEN [p \in DOMAIN fs \cup {OutputPath(domain)} |->
            IF p = OutputPath(domain)
            THEN (IF p \in DOMAIN fs THEN fs[p] ELSE << >>) \o posts
            ELSE fs[p]]
    ELSE fs

SavePosts(fs, domain, posts) ==
    IF posts # << >>
    THEN [p \in DOMAIN fs \cup {OutputPath(domain)} |->
            IF p = OutputPath(domain) THEN posts ELSE fs[p]]
    ELSE fs

StorePosts(posts, new_posts) == posts \o new_posts

\* The callback's effect on the collector's state; raised tells that it
\* ended by an exception (at post.get, before anything was stored).
on_success(d, index) ==
    LET domain   == url_metadata[index + 1][2]
        page_num == url_metadata[index + 1][3]
        scan     == ScanPosts(d, domain_data[domain].post_ids)
        posts1   == StorePosts(domain_data[domain].posts, scan.new_posts)
        next_page == page_num + 1
        next_url == Url(domain, next_page)
        more     == ShouldPaginate(Len(scan.new_posts),
                                   scan.duplicate_count, page_num)
    IN  IF scan.raised
        THEN [raised |-> TRUE,
              domain_data |-> [domain_data EXCEPT
                                 ![domain].post_ids = scan.post_ids],
              files |-> files, urls |-> urls, url_metadata |-> url_metadata]
        ELSE [raised |-> FALSE,
              domain_data |-> [domain_data EXCEPT
                                 ![domain].post_ids = scan.post_ids,
                                 ![domain].posts = posts1,
                                 ![domain].pages_fetched = page_num],
              files |-> SavePosts(files, domain, posts1),
              urls |-> IF more THEN Append(urls, next_url) ELSE urls,
              url_metadata |->
                  IF more
                  THEN Append(url_metadata, <<next_url, domain, next_page>>)
                  ELSE url_metadata]

\* --------------------------------------------------------------- on_error
on_error_Reset(error, index) ==
    LET domain == url_metadata[index + 1][2]
    IN  [domain_data EXCEPT ![domain] =
            [posts |-> << >>, pages_fetched |-> 0, status |-> "error",
             post_ids |-> {}, error |-> error]]

on_error(error, index) ==
    LET domain == url_metadata[index + 1][2]
    IN  [domain_data EXCEPT ![domain].status = "error",
                            ![domain].error = error]

\* ------------------------------------------------------------------- Init
\* The collector right after domain_data was built (collect_news.py:91).
CollectorInit ==
    /\ domains \in DomainLists
    /\ url_metadata = build_domain_urls(domains)
    /\ urls = [k \in 1..Len(domains) |-> build_domain_urls(domains)[k][1]]
    /\ domain_data = InitDomainData(domains)
    /\ files = << >>
    /\ i = -1
    /\ pc = "loop"
    /\ page = None
    /\ tabs = 0
    /\ stale_tabs = 0
    /\ content = None
    /\ data = NoData
    /\ exc = None
    /\ raising = FALSE
    /\ results = << >>
    /\ log = << >>
    /\ parsed = [d \in Range(domains) |-> {}]
    /\ summary = << >>
    /\ sites_needing_testing = << >>
    /\ summary_file = NoFile
    /\ test_urls = << >>
    /\ test_metadata = << >>
    /\ test_results = << >>
    /\ site_notes = << >>
    /\ notes_file = NoNotes
    /\ test_log = << >>

\* The normalizer is not running and nothing was normalized.
NormalizerIdle ==
    /\ source_dirs = << >>
    /\ out_files = << >>
    /\ out_writes = << >>
    /\ source_dir = None
    /\ listing = {}
    /\ articles = << >>
    /\ items_done = 0
    /\ stats = NoStats
    /\ npc = "off"
    /\ runs = << >>

ArticleIdle == article = NoArticle /\ normalized = NotCalled

ExtractorIdle == raw_content = << >> /\ extracted = NotExtracted

Init == CollectorInit /\ NormalizerIdle /\ ArticleIdle /\ ExtractorIdle

\* ------------------------------------------------------ fetch_json_from_urls
\* The for statement: enumerate(urls) yields the next index while one is
\* left in the list as it is now; otherwise the driver returns.
ForNext ==
    /\ pc = "loop"
    /\ IF i + 1 < Len(urls)
       THEN /\ i' = i + 1
            /\ page' = None
            /\ content' = None
            /\ exc' = None
            /\ pc' = "try"
       ELSE /\ pc' = "returned"
            /\ UNCHANGED <<i, page, content, exc>>
    /\ UNCHANGED <<domains, urls, url_metadata, domain_data, files, data,
                   raising, results, log, parsed, summary,
                   sites_needing_testing, summary_file, tvars>>
    /\ UNCHANGED <<tabs, stale_tabs, pvars>>

\* The try block, up to its normal end or to the statement that raises:
\* browser.get, page.get_content, extract_json_from_content or on_success
\* (a timeout of page.select is swallowed and changes nothing; debug_mode
\* is off, as by default, so no page is saved on success).  data keeps its
\* former value until JSON is extracted.
TryBody ==
    /\ pc = "try"
    /\ \E r \in Responses(urls[i + 1]) :
         CASE r.kind = "nav" ->
                /\ page' = None
                /\ content' = None
                /\ exc' = "nav"
                /\ pc' = "except"
                /\ log' = Append(log, <<"get", i>>)
                /\ UNCHANGED <<domain_data, files, urls, url_metadata,
                               results, parsed, data>>
           [] r.kind = "content" ->
                /\ page' = "tab"
                /\ content' = None
                /\ exc' = "content"
                /\ pc' = "except"
                /\ log' = Append(log, <<"get", i>>)
                /\ UNCHANGED <<domain_data, files, urls, url_metadata,
                               results, parsed, data>>
           [] r.kind = "extract" ->
                /\ page' = "tab"
                /\ content' = "text"
                /\ exc' = "extract"
                /\ pc' = "except"
                /\ log' = Append(log, <<"get", i>>)
                /\ UNCHANGED <<domain_data, files, urls, url_metadata,
                               results, parsed, data>>
           [] r.kind = "json" ->
                LET cb == on_success(r.items, i)
                    domain == url_metadata[i + 1][2]
                IN  /\ page' = "tab"
                    /\ content' = "text"
                    /\ data' = Json(r.items)
                    /\ parsed' = [parsed EXCEPT ![domain] =
                                    @ \cup {x \in Range(r.items) :
                                               x.kind = "obj"}]
                    /\ domain_data' = cb.domain_data
                    /\ files' = cb.files
                    /\ urls' = cb.urls
                    /\ url_metadata' = cb.url_metadata
                    /\ log' = log \o <<<<"get", i>>, <<"on_success", i>>>>
                    /\ IF cb.raised
                       THEN /\ exc' = "callback"
                            /\ pc' = "except"
                            /\ UNCHANGED results
                       ELSE /\ exc' = None
                            /\ pc' = "finally"
                            /\ results' = Append(results, "success")
    /\ tabs' = IF page' # None THEN tabs + 1 ELSE tabs
    /\ UNCHANGED stale_tabs
    /\ UNCHANGED <<domains, i, raising, summary, sites_needing_testing,
                   summary_file, tvars>>
    /\ UNCHANGED pvars

\* Writing the captured content to debug_dir (debug_dir is "debug_pages"):
\* attempted when content was captured, and then the write can raise.
DebugSaveOutcomes(c) == IF c # None THEN {TRUE, FALSE} ELSE {TRUE}

\* The except block: debug save, on_error, results.append.  An exception
\* raised here is not caught by the driver.
ExceptBody ==
    /\ pc = "except"
    /\ \E saved \in DebugSaveOutcomes(content) :
         IF saved
         THEN /\ domain_data' = on_error(exc, i)
              /\ results' = Append(results, "error")
              /\ log' = Append(log, <<"on_error", i>>)
              /\ UNCHANGED raising
         ELSE /\ raising' = TRUE
              /\ UNCHANGED <<domain_data, results, log>>
    /\ pc' = "finally"
    /\ UNCHANGED <<domains, urls, url_metadata, files, i, page, content,
                   data, exc, parsed, summary, sites_needing_testing,
                   summary_file, tvars>>
    /\ UNCHANGED <<tabs, stale_tabs, pvars>>

\* page.close() is called when a tab was opened; it either closes the tab
\* or raises, and the tab of a close that raised may still be open.
CloseOutcomes(p) ==
    IF p # None /\ stale_tabs < MaxStaleTabs THEN {TRUE, FALSE} ELSE {TRUE}

TabsAfterClose_OnSuccessOnly(p, closed) ==
    IF p # None /\ closed /\ exc = None THEN tabs - 1 ELSE tabs

TabsAfterClose(p, closed) == IF p # None /\ closed THEN tabs - 1 ELSE tabs

\* The finally block: close the tab, sleep when another item is left; then
\* either the next iteration or the propagation of the pending exception,
\* which leaves collect_wordpress_posts.
FinallyBody ==
    /\ pc = "finally"
    /\ page' = None
    /\ \E closed \in CloseOutcomes(page) :
         /\ tabs' = TabsAfterClose(page, closed)
         /\ stale_tabs' = IF closed THEN stale_tabs ELSE stale_tabs + 1
    /\ log' = log \o (IF page # None THEN <<<<"close", i>>>> ELSE << >>)
                  \o (IF i < Len(urls) - 1 THEN <<<<"sleep", i>>>> ELSE << >>)
    /\ pc' = IF raising THEN "crashed" ELSE "loop"
    /\ UNCHANGED <<domains, urls, url_metadata, domain_data, files, i,
                   content, data, exc, raising, results, parsed, summary,
                   sites_needing_testing, summary_file, tvars>>
    /\ UNCHANGED pvars

\* ------------------------------------------- collect_wordpress_posts, end
ResultOf_RawStatus(domain) ==
    LET d == domain_data[domain]
    IN  [domain |-> domain,
         status |-> d.status,
         article_count |-> Len(d.posts),
         pages_fetched |-> d.pages_fetched,
         error_message |->
             IF d.posts = << >> /\ d.error = None
             THEN "No articles found in timeframe" ELSE d.error,
         file_path |-> IF d.posts # << >> THEN OutputPath(domain) ELSE NoPath]

ResultOf(domain) ==
    LET d == domain_data[domain]
    IN  [domain |-> domain,
         status |-> IF d.posts # << >> THEN "success" ELSE d.status,
         article_count |-> Len(d.posts),
         pages_fetched |-> d.pages_fetched,
         error_message |->
             IF d.posts = << >> /\ d.error = None
             THEN "No articles found in timeframe" ELSE d.error,
         file_path |-> IF d.posts # << >> THEN OutputPath(domain) ELSE NoPath]

NeedsTesting(domain) ==
    domain_data[domain].posts = << >> /\ domain_data[domain].error = None

\* The files after the loop over domains[1..k] has rewritten them.
RECURSIVE FinalFiles(_)
FinalFiles(k) ==
    IF k = 0 THEN files
    ELSE SavePosts(FinalFiles(k - 1), domains[k],
                   domain_data[domains[k]].posts)

\* The loop that saves results and builds the summary.
BuildSummary ==
    /\ pc = "returned"
    /\ summary' = [k \in 1..Len(domains) |-> ResultOf(domains[k])]
    /\ files' = FinalFiles(Len(domains))
    /\ sites_needing_testing' =
          SelectSeq(domains, LAMBDA d : NeedsTesting(d))
    /\ pc' = "summarized"
    /\ UNCHANGED <<domains, urls, url_metadata, domain_data, i, page,
                   content, data, exc, raising, results, log, parsed,
                   summary_file, tvars>>
    /\ UNCHANGED <<tabs, stale_tabs, pvars>>

\* ------------------------------------------------- the diagnostic sub-run
TEST_PER_PAGE == 10

\* The unfiltered request for a domain: page 1, the latest posts first.
TestUrl(domain) ==
    [domain |-> domain, page |-> 1, per_page |-> TEST_PER_PAGE]

build_test_urls(ds) == [k \in 1..Len(ds) |-> <<TestUrl(ds[k]), ds[k]>>]

\* What a site answers to the unfiltered request: a failure of the
\* navigation, of the content capture or of the extraction, or JSON that is
\* an empty array, an array of posts, or an object (an error body).
TestResponses(url) ==
    {[kind |-> k, list |-> FALSE, items |-> << >>] :
        k \in {"nav", "content", "extract"}}
    \cup {[kind |-> "json", list |-> TRUE, items |-> << >>],
          [kind |-> "json", list |-> TRUE,
           items |-> Run(1, url.per_page)],
          [kind |-> "json", list |-> FALSE, items |-> <<StrItem>>]}

on_test_success(r, index) ==
    LET domain == test_metadata[index + 1][2]
        article_count == IF r.list THEN Len(r.items) ELSE 0
    IN  (domain :> [has_json_api |-> "True",
                    articles_found |-> article_count,
                    error |-> None]) @@ test_results

on_test_error(error, index) ==
    LET domain == test_metadata[index + 1][2]
    IN  (domain :> [has_json_api |-> "False", articles_found |-> 0,
                    error |-> error]) @@ test_results

\* Lines 214-237: with nothing to test the sub-run is skipped; otherwise
\* the test worklist is built and the driver is called a second time.
StartTests ==
    /\ pc = "summarized"
    /\ IF sites_needing_testing # << >>
       THEN /\ test_urls' = [k \in 1..Len(sites_needing_testing) |->
                                build_test_urls(sites_needing_testing)[k][1]]
            /\ test_metadata' = build_test_urls(sites_needing_testing)
            /\ i' = -1
            /\ results' = << >>
            /\ pc' = "test_loop"
       ELSE /\ pc' = "notes"
            /\ UNCHANGED <<test_urls, test_metadata, i, results>>
    /\ UNCHANGED <<domains, urls, url_metadata, domain_data, files, page,
                   content, data, exc, raising, log, parsed, summary,
                   sites_needing_testing, summary_file, test_results,
                   site_notes, notes_file, test_log>>
    /\ UNCHANGED <<tabs, stale_tabs, pvars>>

\* The for statement of the driver, over test_urls.
TestForNext ==
    /\ pc = "test_loop"
    /\ IF i + 1 < Len(test_urls)
       THEN /\ i' = i + 1
            /\ page' = None
            /\ content' = None
            /\ exc' = None
            /\ pc' = "test_try"
       ELSE /\ pc' = "test_returned"
            /\ UNCHANGED <<i, page, content, exc>>
    /\ UNCHANGED <<domains, urls, url_metadata, domain_data, files, data,
                   raising, results, log, parsed, summary,
                   sites_needing_testing, summary_file, tvars>>
    /\ UNCHANGED <<tabs, stale_tabs, pvars>>

\* The try block of the driver with on_test_success as its callback, which
\* cannot raise (it checks isinstance(data, list) before len).
TestTryBody ==
    /\ pc = "test_try"
    /\ \E r \in TestResponses(test_urls[i + 1]) :
         IF r.kind = "json"
         THEN /\ page' = "tab"
              /\ content' = "text"
              /\ data' = Json(r.items)
              /\ exc' = None
              /\ test_results' = on_test_success(r, i)
              /\ results' = Append(results, "success")
              /\ test_log' = test_log \o <<<<"get", i>>, <<"on_success", i>>>>
              /\ pc' = "test_finally"
         ELSE /\ page' = IF r.kind = "nav" THEN None ELSE "tab"
              /\ content' = IF r.kind = "extract" THEN "text" ELSE None
              /\ exc' = r.kind
              /\ test_log' = Append(test_log, <<"get", i>>)
              /\ pc' = "test_except"
              /\ UNCHANGED <<data, test_results, results>>
    /\ tabs' = IF page' # None THEN tabs + 1 ELSE tabs
    /\ UNCHANGED stale_tabs
    /\ UNCHANGED <<domains, urls, url_metadata, domain_data, files, i,
                   raising, log, parsed, summary, sites_needing_testing,
                   summary_file, test_urls, test_metadata, site_notes,
                   notes_file>>
    /\ UNCHANGED pvars

\* The except block of the driver with on_test_error as its callback.
TestExceptBody ==
    /\ pc = "test_except"
    /\ \E saved \in DebugSaveOutcomes(content) :
         IF saved
         THEN /\ test_results' = on_test_error(exc, i)
              /\ results' = Append(results, "error")
              /\ test_log' = Append(test_log, <<"on_error", i>>)
              /\ UNCHANGED raising
         ELSE /\ raising' = TRUE
              /\ UNCHANGED <<test_results, results, test_log>>
    /\ pc' = "test_finally"
    /\ UNCHANGED <<domains, urls, url_metadata, domain_data, files, i, page,
                   content, data, exc, log, parsed, summary,
                   sites_needing_testing, summary_file, test_urls,
                   test_metadata, site_notes, notes_file>>
    /\ UNCHANGED <<tabs, stale_tabs, pvars>>

\* The finally block of the driver; a pending exception leaves
\* collect_wordpress_posts before any note or summary is written.
TestFinallyBody ==
    /\ pc = "test_finally"
    /\ page' = None
    /\ \E closed \in CloseOutcomes(page) :
         /\ tabs' = TabsAfterClose(page, closed)
         /\ stale_tabs' = IF closed THEN stale_tabs ELSE stale_tabs + 1
    /\ test_log' = test_log
           \o (IF page # None THEN <<<<"close", i>>>> ELSE << >>)
           \o (IF i < Len(test_urls) - 1 THEN <<<<"sleep", i>>>> ELSE << >>)
    /\ pc' = IF raising THEN "crashed" ELSE "test_loop"
    /\ UNCHANGED <<domains, urls, url_metadata, domain_data, files, i,
                   content, data, exc, raising, results, log, parsed,
                   summary, sites_needing_testing, summary_file, test_urls,
                   test_metadata, test_results, site_notes, notes_file>>
    /\ UNCHANGED pvars

NoteOf(domain) ==
    IF domain \in DOMAIN test_results
    THEN test_results[domain]
    ELSE [has_json_api |-> None, articles_found |-> 0, error |-> None]

\* Lines 277-286: one note per domain of sites_needing_testing.
BuildNotes ==
    /\ pc = "test_returned"
    /\ site_notes' = [d \in Range(sites_needing_testing) |-> NoteOf(d)]
    /\ pc' = "notes"
    /\ UNCHANGED <<domains, urls, url_metadata, domain_data, files, i, page,
                   content, data, exc, raising, results, log, parsed,
                   summary, sites_needing_testing, summary_file, test_urls,
                   test_metadata, test_results, notes_file, test_log>>
    /\ UNCHANGED <<tabs, stale_tabs, pvars>>

\* Lines 288-299: wordpress-site-notes.json is written when there is a note.
WriteNotes ==
    /\ pc = "notes"
    /\ notes_file' = IF DOMAIN site_notes # {}
                     THEN [written |-> TRUE, notes |-> site_notes]
                     ELSE notes_file
    /\ pc' = "noted"
    /\ UNCHANGED <<domains, urls, url_metadata, domain_data, files, i, page,
                   content, data, exc, raising, results, log, parsed,
                   summary, sites_needing_testing, summary_file, test_urls,
                   test_metadata, test_results, site_notes, test_log>>
    /\ UNCHANGED <<tabs, stale_tabs, pvars>>

\* Writing _collection_summary.json.
WriteSummary ==
    /\ pc = "noted"
    /\ summary_file' = [written |-> TRUE, results |-> summary]
    /\ pc' = "done"
    /\ UNCHANGED <<domains, urls, url_metadata, domain_data, files, i, page,
                   content, data, exc, raising, results, log, parsed,
                   summary, sites_needing_testing, tvars>>
    /\ UNCHANGED <<tabs, stale_tabs, pvars>>

Next ==
    \/ ForNext
    \/ TryBody
    \/ ExceptBody
    \/ FinallyBody
    \/ BuildSummary
    \/ StartTests
    \/ TestForNext
    \/ TestTryBody
    \/ TestExceptBody
    \/ TestFinallyBody
    \/ BuildNotes
    \/ WriteNotes
    \/ WriteSummary

Spec == Init /\ [][Next]_vars

\* The program is one thread of control that is never suspended for good:
\* while a step is possible, a step is taken.
FairSpec == Spec /\ WF_vars(Next)

\* ========================================================= normalize_news.py
U1 == "https://a.b/x"

U2 == "https://a.b/y"

U3 == "https://c/z"

Html == "<p>A</p>"

BlankHtml == "<p> </p>"

DateGmt == "2024-01-01T00:00:00"

MediaHref == "https://a.b/wp-json/wp/v2/media/7"

\* markdownify followed by the whitespace cleanup and strip(): the text of
\* the markup, which is empty when the markup holds only white space.
Markdown(html) ==
    CASE html = Html -> "A"
      [] html = BlankHtml -> ""
      [] OTHER -> html

\* urlparse(url).netloc of a string: empty without a scheme and '//'.
Netloc(url) ==
    CASE url \in {U1, U2} -> "a.b"
      [] url = U3 -> "c"
      [] OTHER -> ""

\* int(collection_timestamp) of the digit strings the collector writes.
IntOf(timestamp) ==
    CASE timestamp = "100" -> 100
      [] timestamp = "200" -> 200

\* int(parse_date(...).timestamp()) of a date with its 'Z' suffix, inside
\* try/except (ValueError, TypeError): None when the text is no date.
ParseDate(date) ==
    IF date = <<DateGmt, "Z">> THEN <<1704067200>> ELSE Nothing

\* x['rendered'] if isinstance(x, dict) else x, where x is
\* article.get(key, {}): an absent key gives {} and so a KeyError.
Unwrap(field) ==
    CASE field.shape = "absent" -> [raised |-> TRUE, val |-> ""]
      [] field.shape = "null" -> [raised |-> FALSE, val |-> ""]
      [] OTHER -> [raised |-> FALSE, val |-> field.text]

\* Truth value of an unwrapped field: None and '' are falsy.
Truthy(field) == field.shape \notin {"absent", "null"} /\ field.text # ""

\* Lines 71-78: publication_date and publication_timestamp_gmt.
PublicationDate(date_gmt) ==
    IF Truthy(date_gmt) THEN <<date_gmt.text, "Z">> ELSE Nothing

PublicationTimestamp(date) ==
    IF date # Nothing THEN ParseDate(date) ELSE Nothing

\* Line 88: article.get('_links', {}).get('wp:featuredmedia', [{}])[0]
\* .get('href'); links tells what _links holds.
ImageUrl(links) ==
    CASE links \in {"absent", "no_media", "media_nohref"} -> Returned(Nothing)
      [] links = "media" -> Returned(<<MediaHref>>)
      [] links = "empty_media" -> Raised("IndexError")
      [] links = "null" -> Raised("AttributeError")

\* Lines 39-68: the required fields, inside try/except (KeyError, TypeError).
RequiredFields(a, collection_timestamp) ==
    LET title == Unwrap(a.title)
        body == Unwrap(a.content)
    IN  CASE a.link.shape = "absent" -> Failed("KeyError")
          [] title.raised \/ body.raised -> Failed("KeyError")
          [] a.link.shape = "num" -> Raised("AttributeError")
          [] ~ ( /\ Truthy(a.link)
                 /\ Truthy(a.title)
                 /\ Markdown(body.val) # ""
                 /\ Netloc(a.link.text) # ""
                 /\ IntOf(collection_timestamp) # 0 )
               -> Failed("Missing required field")
          [] OTHER ->
               Returned([NoNormalized EXCEPT
                   !.url = a.link.text,
                   !.title = title.val,
                   !.article_text = Markdown(body.val),
                   !.source_domain = Netloc(a.link.text),
                   !.first_seen_timestamp_gmt =
                        IntOf(collection_timestamp)])

\* normalize_article: the optional fields are computed outside the try.
normalize_article(a, collection_timestamp) ==
    LET req == RequiredFields(a, collection_timestamp)
        date == PublicationDate(a.date_gmt)
        image == ImageUrl(a.links)
    IN  CASE req.kind # "ok" -> req
          [] a.date_gmt.shape = "num" -> Raised("TypeError")
          [] image.kind = "raise" -> image
          [] OTHER ->
               Returned([req.data EXCEPT
                   !.publication_date = date,
                   !.publication_timestamp_gmt = PublicationTimestamp(date),
                   !.image_url = image.data])

\* ------------------------------------------------ one call of the function
LinkFields == {Absent, Null, Str(""), Str("a.b/x"), Num, Str(U1)}

TitleFields == {Absent, Null, Str(""), Str("T1"), Rendered("T1")}

ContentFields == {Absent, Str(Html), Rendered(Html), Rendered(BlankHtml)}

DateFields == {Absent, Null, Str(""), Str(DateGmt), Str("garbage"), Num}

LinksShapes ==
    {"absent", "no_media", "media_nohref", "media", "empty_media", "null"}

RawPosts ==
    {RawPost(l, t, c, d, m) :
        l \in LinkFields, t \in TitleFields, c \in ContentFields,
        d \in DateFields, m \in LinksShapes}

CollectorIdle == CollectorInit /\ domains = << >>

ArticleInit ==
    /\ CollectorIdle
    /\ NormalizerIdle
    /\ ExtractorIdle
    /\ article \in RawPosts
    /\ normalized = NotCalled

Normalize ==
    /\ normalized = NotCalled
    /\ normalized' = normalize_article(article, "100")
    /\ UNCHANGED <<cvars, nvars, article, xvars>>

ArticleNext == Normalize

ArticleSpec == ArticleInit /\ [][ArticleNext]_vars

\* ------------------------------------------- process_collection_directory
\* Most invocations of the normalizer in one behaviour.
MaxRuns == 2

CollectionSummaryName == <<"_collection_summary", ".json">>

NormSummaryName == <<"_normalization_summary", ".json">>

SiteNotesName == <<"wordpress-site-notes", ".json">>

\* A file of a collection directory: kind tells what json.load makes of it
\* ("list", "dict", or "text" for a file that is not JSON).
FileOf(kind, items, timestamp, st) ==
    [kind |-> kind, items |-> items, timestamp |-> timestamp, stats |-> st]

PostsFile(items) == FileOf("list", items, "", NoStats)

CollectionSummary(timestamp) == FileOf("dict", << >>, timestamp, NoStats)

NormalizationSummary(st) == FileOf("dict", << >>, "", st)

SiteNotes == FileOf("dict", << >>, "", NoStats)

TextFile == FileOf("text", << >>, "", NoStats)

\* Items of a raw array: a post object, or a value that is not an object.
Item(post) == [dict |-> TRUE, post |-> post]

NonDictItem == [dict |-> FALSE, post |-> NoArticle]

Post(url, title) ==
    RawPost(Str(url), Rendered(title), Rendered(Html), Str(DateGmt), "media")

NoLinkPost ==
    RawPost(Absent, Rendered("T1"), Rendered(Html), Str(DateGmt), "media")

EmptyMediaPost ==
    RawPost(Str(U3), Rendered("T1"), Rendered(Html), Str(DateGmt),
            "empty_media")

\* The collection directories on disk.  "run1": two posts, an item that is
\* not an object, a post without link, the site notes and a text file.
\* "run2": a later collection with the first post revised and listed twice,
\* and a file that is not JSON.  "run3": a post whose featured-media list
\* is empty.  "empty": a directory without collection summary.
SourceDirs ==
    [d \in {"run1", "run2", "run3", "empty"} |->
       CASE d = "run1" ->
              (CollectionSummaryName :> CollectionSummary("100"))
              @@ (<<"a_b", ".json">> :>
                    PostsFile(<<Item(Post(U1, "T1")), NonDictItem,
                                Item(NoLinkPost), Item(Post(U2, "T1"))>>))
              @@ (SiteNotesName :> SiteNotes)
              @@ (<<"notes", ".txt">> :> TextFile)
         [] d = "run2" ->
              (CollectionSummaryName :> CollectionSummary("200"))
              @@ (<<"a_b", ".json">> :>
                    PostsFile(<<Item(Post(U1, "T2")),
                                Item(Post(U1, "T2"))>>))
              @@ (<<"c", ".json">> :> TextFile)
         [] d = "run3" ->
              (CollectionSummaryName :> CollectionSummary("100"))
              @@ (<<"c", ".json">> :>
                    PostsFile(<<Item(Post(U2, "T1")), Item(EmptyMediaPost),
                                Item(Post(U3, "T1"))>>))
         [] OTHER -> << >>]

\* Directories a run can be pointed at ("nowhere" does not exist).
SourceArgs == DOMAIN SourceDirs \cup {"nowhere"}

\* filename.endswith(".json")
EndsWithJson(filename) == filename[Len(filename)] = ".json"

\* Line 147: the files the loop passes over.
IsSkipped(filename) ==
    \/ ~ EndsWithJson(filename)
    \/ filename \in {CollectionSummaryName, NormSummaryName}

CountError_Uncounted(st, msg) ==
    [st EXCEPT !.errors_list = Append(@, msg)]

CountError(st, msg) ==
    [st EXCEPT !.errors = @ + 1, !.errors_list = Append(@, msg)]

\* hashlib.md5(url.encode('utf-8')).hexdigest(): taken to be free of
\* collisions, the digest stands for the URL it was computed from.
Md5(url) == <<"md5", url>>

\* os.path.join(output_dir, source_domain, url_hash + ".json")
OutputFilepath(n) == <<n.source_domain, Md5(n.url), ".json">>

CountSkipped_AsNew(st) == [st EXCEPT !.articles_new = @ + 1]

\* Line 191: the article is counted as skipped.
CountSkipped(st) == [st EXCEPT !.articles_skipped = @ + 1]

Exists_Never(path, fs) == FALSE

\* os.path.exists(output_filepath)
Exists(path, fs) == path \in DOMAIN fs

\* What open(.., 'w') and json.dump can do: write the file, fail before
\* the file is created, or fail after it was created (a partial file).
WriteOutcomes == {"written", "not_created", "partial"}

collection_timestamp == source_dirs[source_dir][CollectionSummaryName].timestamp

NormalizerInit ==
    /\ source_dirs = SourceDirs
    /\ out_files = << >>
    /\ out_writes = << >>
    /\ source_dir = None
    /\ listing = {}
    /\ articles = << >>
    /\ items_done = 0
    /\ stats = NoStats
    /\ npc = "idle"
    /\ runs = << >>

NormInit == CollectorIdle /\ NormalizerInit /\ ArticleIdle /\ ExtractorIdle

\* Lines 123-145: the early returns, then stats and os.listdir.
StartRun ==
    /\ npc \in {"idle", "aborted"}
    /\ Len(runs) < MaxRuns
    /\ \E s \in SourceArgs :
         /\ source_dir' = s
         /\ runs' = Append(runs, s)
         /\ IF s \in DOMAIN source_dirs
               /\ CollectionSummaryName \in DOMAIN source_dirs[s]
            THEN /\ listing' = DOMAIN source_dirs[s]
                 /\ npc' = "files"
            ELSE /\ listing' = {}
                 /\ npc' = "idle"
    /\ stats' = NoStats
    /\ articles' = << >>
    /\ items_done' = 0
    /\ UNCHANGED <<cvars, source_dirs, out_files, out_writes, avars, xvars>>

\* Lines 146-162: the next name of the listing, in no particular order.
NextFile ==
    /\ npc = "files"
    /\ \E filename \in listing :
         LET file == source_dirs[source_dir][filename]
             counted == [stats EXCEPT !.files_processed = @ + 1]
         IN  /\ listing' = listing \ {filename}
             /\ CASE IsSkipped(filename) ->
                       UNCHANGED <<stats, articles, items_done, npc>>
                  [] ~ IsSkipped(filename) /\ file.kind # "list" ->
                       /\ stats' = CountError(counted, "not a list")
                       /\ UNCHANGED <<articles, items_done, npc>>
                  [] OTHER ->
                       /\ stats' = counted
                       /\ articles' = file.items
                       /\ items_done' = 0
                       /\ npc' = IF file.items = << >>
                                 THEN "files" ELSE "articles"
    /\ UNCHANGED <<cvars, source_dirs, out_files, out_writes, source_dir,
                   runs, avars, xvars>>

\* Lines 164-201: one item of the array.  An exception of
\* normalize_article is caught nowhere and ends the run.
NextArticle ==
    /\ npc = "articles"
    /\ LET item == articles[items_done + 1]
           r == normalize_article(item.post, collection_timestamp)
           path == OutputFilepath(r.data)
           after == IF items_done + 1 = Len(articles)
                    THEN "files" ELSE "articles"
       IN  CASE ~ item.dict ->
                  /\ stats' = CountError(stats, "not a dictionary")
                  /\ npc' = after
                  /\ UNCHANGED <<out_files, out_writes>>
             [] item.dict /\ r.kind = "raise" ->
                  /\ npc' = "aborted"
                  /\ UNCHANGED <<stats, out_files, out_writes>>
             [] item.dict /\ r.kind = "error" ->
                  /\ stats' = CountError(stats, r.error)
                  /\ npc' = after
                  /\ UNCHANGED <<out_files, out_writes>>
             [] item.dict /\ r.kind = "ok" /\ Exists(path, out_files) ->
                  /\ stats' = CountSkipped(stats)
                  /\ npc' = after
                  /\ UNCHANGED <<out_files, out_writes>>
             [] OTHER ->
                  /\ npc' = after
                  /\ \E w \in WriteOutcomes :
                       CASE w = "written" ->
                              /\ out_files' = (path :> Returned(r.data))
                                                @@ out_files
                              /\ out_writes' =
                                    Append(out_writes, <<Len(runs), path>>)
                              /\ stats' =
                                    [stats EXCEPT !.articles_new = @ + 1]
                         [] w = "partial" ->
                              /\ out_files' = (path :> Failed("partial"))
                                                @@ out_files
                              /\ out_writes' =
                                    Append(out_writes, <<Len(runs), path>>)
                              /\ stats' = CountError(stats, "write")
                         [] OTHER ->
                              /\ stats' = CountError(stats, "write")
                              /\ UNCHANGED <<out_files, out_writes>>
    /\ items_done' = items_done + 1
    /\ UNCHANGED <<cvars, source_dirs, source_dir, listing, articles, runs,
                   avars, xvars>>

\* Lines 203-211: _normalization_summary.json is written into source_dir.
WriteNormSummary ==
    /\ npc = "files"
    /\ listing = {}
    /\ source_dirs' =
          [source_dirs EXCEPT ![source_dir] =
              (NormSummaryName :> NormalizationSummary(stats)) @@ @]
    /\ npc' = "idle"
    /\ UNCHANGED <<cvars, out_files, out_writes, source_dir, listing,
                   articles, items_done, stats, runs, avars, xvars>>

NormNext ==
    \/ StartRun
    \/ NextFile
    \/ NextArticle
    \/ WriteNormSummary

NormSpec == NormInit /\ [][NormNext]_vars

\* ================================================ extract_json_from_content
\* A text is a sequence of characters; a tag name ("html", "p", "!DOCTYPE")
\* counts as one character.  JSON texts are made of [ ] { } , and 1.
Whitespace == {" ", "\n"}

\* str.strip()
RECURSIVE LStrip(_)
LStrip(t) ==
    IF t # << >> /\ Head(t) \in Whitespace THEN LStrip(Tail(t)) ELSE t

RECURSIVE RStrip(_)
RStrip(t) ==
    IF t # << >> /\ t[Len(t)] \in Whitespace
    THEN RStrip(SubSeq(t, 1, Len(t) - 1)) ELSE t

Strip(t) == RStrip(LStrip(t))

\* str.find and str.rfind of one character, counted from 0 (-1: not found).
Find(t, c) ==
    IF \E k \in 1..Len(t) : t[k] = c
    THEN (CHOOSE k \in 1..Len(t) :
             t[k] = c /\ \A j \in 1..(k - 1) : t[j] # c) - 1
    ELSE -1

RFind(t, c) ==
    IF \E k \in 1..Len(t) : t[k] = c
    THEN (CHOOSE k \in 1..Len(t) :
             t[k] = c /\ \A j \in (k + 1)..Len(t) : t[j] # c) - 1
    ELSE -1

\* content[lo:hi] of Python, for 0 <= lo
Slice(t, lo, hi) == SubSeq(t, lo + 1, hi)

\* json.loads: the text is a value, with white space allowed around its
\* tokens and nothing else after it.  ParseValue gives the position after
\* the value that starts at position p, or 0 when there is none.
RECURSIVE ParseValue(_, _)
RECURSIVE ParseElements(_, _)
ParseValue(t, p) ==
    IF p > Len(t) THEN 0
    ELSE CASE t[p] = "1" -> p + 1
           [] t[p] = "{" ->
                IF p + 1 <= Len(t) /\ t[p + 1] = "}" THEN p + 2 ELSE 0
           [] t[p] = "[" ->
                IF p + 1 <= Len(t) /\ t[p + 1] = "]" THEN p + 2
                ELSE ParseElements(t, p + 1)
           [] OTHER -> 0

ParseElements(t, p) ==
    LET q == ParseValue(t, p)
    IN  IF q = 0 \/ q > Len(t) THEN 0
        ELSE CASE t[q] = "]" -> q + 1
               [] t[q] = "," -> ParseElements(t, q + 1)
               [] OTHER -> 0

\* The parsed value is written as its tokens, white space left out.
json_loads(text) ==
    LET t == SelectSeq(text, LAMBDA c : c \notin Whitespace)
    IN  IF ParseValue(t, 1) = Len(t) + 1
        THEN Parsed(t) ELSE ExtractError("JSONDecodeError")

\* <[^>]+> at position p: the position of its '>', or 0 without a match.
TagEnd(t, p) ==
    IF p <= Len(t) /\ t[p] = "<" /\ \E q \in (p + 1)..Len(t) : t[q] = ">"
    THEN LET q == CHOOSE q \in (p + 1)..Len(t) :
                     t[q] = ">" /\ \A j \in (p + 1)..(q - 1) : t[j] # ">"
         IN  IF q >= p + 2 THEN q ELSE 0
    ELSE 0

\* (<[^>]+>)+ at position p: the position after the longest run of tags.
RECURSIVE TagRunEnd(_, _)
TagRunEnd(t, p) ==
    IF TagEnd(t, p) = 0 THEN p ELSE TagRunEnd(t, TagEnd(t, p) + 1)

\* re.sub(r'^(<[^>]+>)+', '', content, flags=MULTILINE|DOTALL), from p on:
\* ^ matches at the start of the text and after each newline.
RECURSIVE RemoveOpeningFrom(_, _)
RemoveOpeningFrom(t, p) ==
    IF p > Len(t) THEN << >>
    ELSE IF (p = 1 \/ t[p - 1] = "\n") /\ TagRunEnd(t, p) > p
         THEN RemoveOpeningFrom(t, TagRunEnd(t, p))
         ELSE <<t[p]>> \o RemoveOpeningFrom(t, p + 1)

RemoveOpening(t) == RemoveOpeningFrom(t, 1)

\* </[^>]+> at position p: the position of its '>', or 0.
CloseTagEnd(t, p) ==
    IF p + 1 <= Len(t) /\ t[p] = "<" /\ t[p + 1] = "/"
       /\ \E q \in (p + 2)..Len(t) : t[q] = ">"
    THEN LET q == CHOOSE q \in (p + 2)..Len(t) :
                     t[q] = ">" /\ \A j \in (p + 2)..(q - 1) : t[j] # ">"
         IN  IF q >= p + 3 THEN q ELSE 0
    ELSE 0

RECURSIVE CloseRunEnd(_, _)
CloseRunEnd(t, p) ==
    IF CloseTagEnd(t, p) = 0 THEN p ELSE CloseRunEnd(t, CloseTagEnd(t, p) + 1)

\* \s*$ at position e: the position after the match, or 0.  $ matches at
\* the end of the text and before each newline; \s* takes the most white
\* space that lets $ match.
TrailEnd(t, e) ==
    LET ends == {x \in e..(Len(t) + 1) :
                    /\ \A j \in e..(x - 1) : t[j] \in Whitespace
                    /\ x = Len(t) + 1 \/ t[x] = "\n"}
    IN  IF ends = {} THEN 0
        ELSE CHOOSE x \in ends : \A y \in ends : y <= x

\* re.sub(r'(</[^>]+>)+\s*$', '', cleaned, flags=MULTILINE|DOTALL)
RECURSIVE RemoveClosingFrom(_, _)
RemoveClosingFrom(t, p) ==
    IF p > Len(t) THEN << >>
    ELSE IF CloseRunEnd(t, p) > p /\ TrailEnd(t, CloseRunEnd(t, p)) # 0
         THEN RemoveClosingFrom(t, TrailEnd(t, CloseRunEnd(t, p)))
         ELSE <<t[p]>> \o RemoveClosingFrom(t, p + 1)

RemoveClosing(t) == RemoveClosingFrom(t, 1)

\* content.strip().startswith('<html') or ...startswith('<!DOCTYPE')
LooksLikeHtml(t) ==
    /\ Len(Strip(t)) >= 2
    /\ Strip(t)[1] = "<"
    /\ Strip(t)[2] \in {"html", "!DOCTYPE"}

\* Lines 139-155: from the first [ or { to the last ] or }.
ManualExtract(t) ==
    LET array_start == Find(t, "[")
        array_end == RFind(t, "]") + 1
        obj_start == Find(t, "{")
        obj_end == RFind(t, "}") + 1
    IN  IF array_start # -1 /\ (obj_start = -1 \/ array_start < obj_start)
        THEN IF array_end > array_start
             THEN json_loads(Slice(t, array_start, array_end))
             ELSE ExtractError("ValueError")
        ELSE IF obj_start # -1 /\ obj_end > obj_start
             THEN json_loads(Slice(t, obj_start, obj_end))
             ELSE ExtractError("ValueError")

extract_json_from_content(t) ==
    LET cleaned == Strip(RemoveClosing(RemoveOpening(t)))
    IN  CASE json_loads(t).kind = "ok" -> json_loads(t)
          [] LooksLikeHtml(t) /\ json_loads(cleaned).kind = "ok" ->
               json_loads(cleaned)
          [] OTHER -> ManualExtract(t)

\* ---------------------------------------------------- wrapped JSON arrays
\* Most tags before the JSON text, and most tags after it.
MaxTags == 2

\* Opening tags; two of them carry a bracket or a brace in an attribute.
OpenTags ==
    { <<"<", "html", ">">>, <<"<", "p", ">">>,
      <<"<", "p", " ", "[", "1", "]", ">">>, <<"<", "p", " ", "{", ">">> }

CloseTags == { <<"<", "/", "html", ">">>, <<"<", "/", "p", ">">> }

\* What stands between two tags and around the JSON text.
Separators == { << >>, <<" ">>, <<"\n">> }

JsonArrays ==
    { <<"[", "]">>, <<"[", "1", "]">>,
      <<"[", "1", ",", " ", "{", "}", "]">>,
      <<"[", "[", "1", "]", ",", "\n", "[", "]", "]">> }

TagRuns(tags) == UNION {[1..n -> tags] : n \in 1..MaxTags}

\* The tags of a run, each followed by the separator.
RECURSIVE Joined(_, _)
Joined(run, sep) ==
    IF run = << >> THEN << >>
    ELSE Head(run) \o sep \o Joined(Tail(run), sep)

\* The JSON text between opening and closing tags.
Wrap(opening, closing, sep, text) ==
    Joined(opening, sep) \o text \o sep \o Joined(closing, sep)

WrappedArrays ==
    {Wrap(o, c, sep, a) : o \in TagRuns(OpenTags), c \in TagRuns(CloseTags),
                          sep \in Separators, a \in JsonArrays}

ExtractInit ==
    /\ CollectorIdle
    /\ NormalizerIdle
    /\ ArticleIdle
    /\ raw_content \in WrappedArrays
    /\ extracted = NotExtracted

Extract ==
    /\ extracted.kind = "none"
    /\ extracted' = extract_json_from_content(raw_content)
    /\ UNCHANGED <<cvars, nvars, avars, raw_content>>

ExtractNext == Extract

ExtractSpec == ExtractInit /\ [][ExtractNext]_vars

\* ============================================================== properties
CurDomain == url_metadata[i + 1][2]

CurPage == url_metadata[i + 1][3]

\* The step in which on_success was called and returned normally.
SuccessHandled == pc = "try" /\ pc' = "finally"

\* The step in which on_success was called (and returned or raised).
SuccessCalled == pc = "try" /\ pc' # "try" /\ exc' \in {None, "callback"}

\* The state right after on_success returned normally for item i (data is
\* then the page of item i).
AfterSuccess == pc = "finally" /\ exc = None

\* Positions of d holding an id not in seen and not at an earlier position.
NewIdx(d, seen) ==
    {k \in 1..Len(d) : /\ d[k].id # 0
                       /\ d[k].id \notin seen
                       /\ \A j \in 1..(k - 1) : d[j].id # d[k].id}

\* Positions of d holding an id in seen or at an earlier position.
DupIdx(d, seen) ==
    {k \in 1..Len(d) : /\ d[k].id # 0
                       /\ \/ d[k].id \in seen
                          \/ \E j \in 1..(k - 1) : d[j].id = d[k].id}

IdsOf(posts) == {posts[k].id : k \in 1..Len(posts)}

IsPrefix(s, t) == Len(s) <= Len(t) /\ \A k \in 1..Len(s) : s[k] = t[k]

Events(index) ==
    SelectSeq(log, LAMBDA e : e[2] = index /\ e[1] \in {"on_success", "on_error"})

Gets == SelectSeq(log, LAMBDA e : e[1] = "get")

DriverStopped == pc \in {"returned", "summarized", "done", "crashed"}

\* C1: when on_success has handled a page, the next page of the domain is
\* appended to the worklist if and only if the page gave exactly 100 new
\* posts, no duplicate, and page_num + 1 <= 20; otherwise the worklist is
\* left as it is.
C1_PaginationPredicate ==
    [][SuccessHandled =>
         LET seen == domain_data[CurDomain].post_ids
             next_page == CurPage + 1
             next_url == Url(CurDomain, next_page)
             cont == /\ Cardinality(NewIdx(data'.items, seen)) = 100
                     /\ Cardinality(DupIdx(data'.items, seen)) = 0
                     /\ next_page <= 20
         IN  IF cont
             THEN /\ urls' = Append(urls, next_url)
                  /\ url_metadata' =
                       Append(url_metadata, <<next_url, CurDomain, next_page>>)
             ELSE /\ urls' = urls
                  /\ url_metadata' = url_metadata]_vars

\* C1 witness: page 19 gave 100 new posts and no duplicate, and page 20 was
\* appended.
C1_Witness ==
    /\ AfterSuccess
    /\ CurPage = 19
    /\ Len(data.items) = 100
    /\ Len(urls) = i + 2
    /\ urls[i + 2] = Url(CurDomain, 20)

\* C2: the stored posts of a domain never hold two posts with the same id.
C2_NoDuplicateStored ==
    \A d \in DOMAIN domain_data :
        Cardinality(IdsOf(domain_data[d].posts)) = Len(domain_data[d].posts)

\* C2 witness: a page repeating an id was handled and the id is stored once.
C2_Witness ==
    /\ AfterSuccess
    /\ \E k \in 1..Len(data.items) :
          /\ data.items[k].id # 0
          /\ Cardinality({j \in 1..Len(data.items) :
                 data.items[j].id = data.items[k].id}) = 2
          /\ Cardinality({j \in 1..Len(domain_data[CurDomain].posts) :
                 domain_data[CurDomain].posts[j].id = data.items[k].id}) = 1

\* C3: when on_success is called with an array of post objects, the
\* domain's seen-id set afterwards is the set before united with the ids
\* of the array; and no step ever removes an id from a seen-id set.
C3_SeenIdsUnion ==
    [][/\ (SuccessCalled /\ \A k \in 1..Len(data'.items) :
                                 data'.items[k].kind = "obj")
          => domain_data'[CurDomain].post_ids =
                domain_data[CurDomain].post_ids
                    \cup (IdsOf(data'.items) \ {0})
       /\ \A d \in DOMAIN domain_data :
             domain_data[d].post_ids \subseteq domain_data'[d].post_ids]_vars

\* C3 witness: a page holding both unseen and seen ids was handled.
C3_Witness ==
    /\ AfterSuccess
    /\ Len(domain_data[CurDomain].posts) > 100
    /\ Cardinality(IdsOf(data.items) \ {0}) = 101
    /\ Cardinality(domain_data[CurDomain].post_ids) = 200

\* C4: when the driver has stopped, every item of the worklist, initial or
\* appended, has been fetched exactly once, in worklist order.
C4_EveryItemFetchedOnceInOrder ==
    /\ Gets = [k \in 1..Len(Gets) |-> <<"get", k - 1>>]
    /\ DriverStopped => Len(Gets) = Len(urls)

\* C5: when the driver is done with an item it has invoked exactly one
\* callback for it, once: on_success if navigation and extraction succeeded
\* (no exception, or one raised only later, by the callback), else on_error.
C5_ExactlyOneCallback ==
    pc = "finally" =>
        Events(i) = IF exc \in {None, "callback"}
                    THEN <<<<"on_success", i>>>>
                    ELSE <<<<"on_error", i>>>>

\* C6: whatever failed for an item, when another item is left the driver
\* goes on to it after the item's finally block.
C6_FailureNeverAborts ==
    [][(pc = "finally" /\ i + 1 < Len(urls)) => pc' = "loop"]_vars

\* C7: right after on_success has handled a page of a domain that has at
\* least one accumulated post, the domain's output file holds exactly the
\* domain's accumulated posts.
C7_FileHoldsAccumulated ==
    (AfterSuccess /\ domain_data[CurDomain].posts # << >>) =>
        /\ OutputPath(CurDomain) \in DOMAIN files
        /\ files[OutputPath(CurDomain)] = domain_data[CurDomain].posts

\* C7 witness: the second page of a domain was handled, so that the file
\* holds more than the page just fetched.
C7_Witness ==
    /\ AfterSuccess
    /\ CurPage = 2
    /\ Len(data.items) = 99
    /\ Len(domain_data[CurDomain].posts) = 199
    /\ Len(files[OutputPath(CurDomain)]) = 199

\* C8: when the collection summary is written, every post object of every
\* page that was fetched and parsed is in its domain's output file.
C8_EveryParsedPostPersisted ==
    pc = "done" =>
        \A d \in DOMAIN parsed : \A x \in parsed[d] :
            /\ OutputPath(d) \in DOMAIN files
            /\ x \in Range(files[OutputPath(d)])

\* C9: every output file keeps what it holds: its content before a step is
\* a prefix of its content after the step.
C9_PersistedPrefix ==
    [][\A d \in DOMAIN domain_data :
         OutputPath(d) \in DOMAIN files =>
            /\ OutputPath(d) \in DOMAIN files'
            /\ IsPrefix(files[OutputPath(d)], files'[OutputPath(d)])]_vars

\* C10: the step in which on_error is called sets the domain's status to
\* error and records the message; the domain's posts, seen-id set and
\* pages_fetched, every other domain, the worklist and the output files
\* are unchanged.
C10_ErrorHandlerFrame ==
    [][(pc = "except" /\ log' # log) =>
         /\ domain_data'[CurDomain].status = "error"
         /\ domain_data'[CurDomain].error = exc
         /\ exc # None
         /\ domain_data'[CurDomain].posts = domain_data[CurDomain].posts
         /\ domain_data'[CurDomain].post_ids = domain_data[CurDomain].post_ids
         /\ domain_data'[CurDomain].pages_fetched =
               domain_data[CurDomain].pages_fetched
         /\ \A d \in DOMAIN domain_data \ {CurDomain} :
               domain_data'[d] = domain_data[d]
         /\ DOMAIN domain_data' = DOMAIN domain_data
         /\ urls' = urls
         /\ url_metadata' = url_metadata
         /\ files' = files]_vars

\* C10 witness: on_error has run for a domain that holds posts, with
\* another domain in the run.
C10_Witness ==
    /\ pc = "finally"
    /\ exc # None
    /\ ~raising
    /\ Events(i) = <<<<"on_error", i>>>>
    /\ domain_data[CurDomain].status = "error"
    /\ domain_data[CurDomain].posts # << >>
    /\ Cardinality(DOMAIN domain_data) = 2

\* ----------------------------------------------- the diagnostic sub-run
\* Positions in test_log of the requests sent for a domain.
TestGetsOf(d) ==
    {k \in 1..Len(test_log) :
        /\ test_log[k][1] = "get"
        /\ test_metadata[test_log[k][2] + 1][2] = d}

\* The main pass returned and the diagnostic sub-run is over: skipped,
\* returned, or left by an exception.
SubRunOver ==
    \/ pc \in {"notes", "noted", "done"}
    \/ pc = "crashed" /\ test_urls # << >>

\* C11: after the main pass a domain receives a diagnostic request if and
\* only if it has no stored post and no recorded error, each such domain
\* receives exactly one, and the diagnostic worklist is never extended.
C11_DiagnosticRequests ==
    /\ SubRunOver =>
          \A d \in Range(domains) :
              Cardinality(TestGetsOf(d)) = IF NeedsTesting(d) THEN 1 ELSE 0
    /\ test_urls \in
          {<< >>, [k \in 1..Len(sites_needing_testing) |->
                     TestUrl(sites_needing_testing[k])]}

\* Indices of the diagnostic worklist that probe a domain.
ProbeIdx(d) ==
    {k \in 0..(Len(test_urls) - 1) : test_metadata[k + 1][2] = d}

ProbeSucceeded(k) == <<"on_success", k>> \in Range(test_log)

ProbeFailed(k) == <<"on_error", k>> \in Range(test_log)

\* The diagnostic driver returned and the notes were built from its results.
NotesBuilt == pc \in {"notes", "noted", "done"} /\ test_urls # << >>

\* C12: when the diagnostic sub-run has finished, the diagnostics record
\* has an entry for exactly the probed domains, with has_json_api true
\* exactly when the domain's diagnostic fetch succeeded and false exactly
\* when it failed.
C12_NotesReflectFetch ==
    NotesBuilt =>
        /\ DOMAIN site_notes =
              {test_metadata[k][2] : k \in 1..Len(test_metadata)}
        /\ \A d \in DOMAIN site_notes :
              /\ site_notes[d].has_json_api = "True"
                    <=> \E k \in ProbeIdx(d) : ProbeSucceeded(k)
              /\ site_notes[d].has_json_api = "False"
                    <=> \E k \in ProbeIdx(d) : ProbeFailed(k)

\* ---------------------------------------------------- the collection summary
\* C13: the summary written at the end of a run holds one result record per
\* line of the domains file, in input order; a record's article_count is
\* the number of posts stored for its domain, its status is success exactly
\* when article_count > 0, and its file_path is set exactly when
\* article_count > 0.
C13_SummaryRecords ==
    summary_file.written =>
        LET rs == summary_file.results
        IN  /\ Len(rs) = Len(domains)
            /\ \A k \in 1..Len(rs) :
                  /\ rs[k].domain = domains[k]
                  /\ rs[k].article_count = Len(domain_data[domains[k]].posts)
                  /\ rs[k].status = "success" <=> rs[k].article_count > 0
                  /\ rs[k].file_path # NoPath <=> rs[k].article_count > 0

\* A written summary of two domains, one with posts and one that failed.
C13_Witness ==
    /\ summary_file.written
    /\ Len(summary_file.results) = 2
    /\ summary_file.results[1].article_count > 0
    /\ summary_file.results[2].article_count = 0
    /\ summary_file.results[2].status = "error"

\* ------------------------------------------------------------ pages_fetched
\* Worklist indices of a domain whose page was fetched, parsed and handled
\* by on_success without an error.
PagesFetchedOk(d) ==
    {k \in 0..(Len(urls) - 1) :
        /\ url_metadata[k + 1][2] = d
        /\ <<"on_success", k>> \in Range(log)
        /\ <<"on_error", k>> \notin Range(log)}

\* C14: at the end of the main pass a domain's pages_fetched is the number
\* of pages fetched successfully for it (0 when none was), and during the
\* run it never decreases.
C14_PagesFetchedCount ==
    [][/\ \A d \in Range(domains) :
             domain_data'[d].pages_fetched >= domain_data[d].pages_fetched
       /\ pc' = "returned" =>
             \A d \in Range(domains) :
                 domain_data'[d].pages_fetched
                     = (Cardinality(PagesFetchedOk(d)))']_vars

RequiredValid(a) ==
    /\ a.link.shape = "str" /\ a.link.text \in {U1, U2, U3}
    /\ a.title.shape \in {"str", "dict"} /\ a.title.text # ""
    /\ a.content.shape \in {"str", "dict"} /\ a.content.text = Html

\* C19: for every raw post whose required fields are valid, normalization
\* returns an article and no error whatever the optional fields hold; a
\* date_gmt that cannot be parsed gives a null publication timestamp and a
\* post without a featured-media link gives a null image_url.
C19_OptionalFieldsNeverFail ==
    (normalized.kind # "none" /\ RequiredValid(article)) =>
        /\ normalized.kind = "ok"
        /\ article.date_gmt # Str(DateGmt) =>
              normalized.data.publication_timestamp_gmt = Nothing
        /\ article.links # "media" =>
              normalized.data.image_url = Nothing

\* ============================================ process_collection_directory
\* The step that writes _normalization_summary.json and ends a run.
RunFinishes == npc = "files" /\ npc' = "idle"

\* The run that is ending is the second of two consecutive runs over the
\* same source directory, the first of which wrote its summary.
SecondRunOver ==
    /\ npc = "files"
    /\ listing = {}
    /\ Len(runs) >= 2
    /\ runs[Len(runs) - 1] = source_dir
    /\ NormSummaryName \in DOMAIN source_dirs[source_dir]

FirstRunStats == source_dirs[source_dir][NormSummaryName].stats

\* Output files opened for writing by the current run.
WrittenInRun ==
    {out_writes[k][2] : k \in {j \in 1..Len(out_writes) :
                                  out_writes[j][1] = Len(runs)}}

\* C16 as stated: the second of two runs over the same directories writes
\* no file and its articles_skipped equals the first run's articles_new.
C16_SecondRunSkipsFirstNew ==
    [][(RunFinishes /\ SecondRunOver) =>
          /\ WrittenInRun = {}
          /\ stats.articles_skipped = FirstRunStats.articles_new]_vars

\* C16, amended: when the first run recorded no write error, the second
\* run writes no file, counts no new article, and its articles_skipped
\* equals the first run's articles_new plus its articles_skipped.
C16_SecondRunSkipsAll ==
    [][(RunFinishes /\ SecondRunOver
          /\ "write" \notin Range(FirstRunStats.errors_list)) =>
          /\ WrittenInRun = {}
          /\ stats.articles_new = 0
          /\ stats.articles_skipped =
                FirstRunStats.articles_new
                  + FirstRunStats.articles_skipped]_vars

\* The second run over "run2" is about to write its summary; the first
\* run wrote one article and skipped its second listing.
C16_Witness ==
    /\ SecondRunOver
    /\ source_dir = "run2"
    /\ FirstRunStats.articles_new = 1
    /\ FirstRunStats.articles_skipped = 1
    /\ stats.articles_skipped = 2

\* The current item normalizes to an article whose output file exists.
ArticleExists ==
    /\ npc = "articles"
    /\ articles[items_done + 1].dict
    /\ LET r == normalize_article(articles[items_done + 1].post,
                                  collection_timestamp)
       IN  r.kind = "ok" /\ OutputFilepath(r.data) \in DOMAIN out_files

\* C17: across normalization runs an output file is opened for writing at
\* most once; when the file of an article exists the article is counted as
\* skipped, and no existing file ever changes.
C17_WrittenAtMostOnce ==
    [][/\ \A path \in DOMAIN out_files :
             path \in DOMAIN out_files' /\ out_files'[path] = out_files[path]
       /\ \A j, k \in 1..Len(out_writes') :
             j # k => out_writes'[j][2] # out_writes'[k][2]
       /\ ArticleExists =>
             /\ stats'.articles_skipped = stats.articles_skipped + 1
             /\ stats'.articles_new = stats.articles_new
             /\ stats'.errors = stats.errors]_vars

\* Both listings of the revised post in "run2" were skipped, and the file
\* still holds the article that "run1" wrote.
C17_Witness ==
    /\ runs = <<"run1", "run2">>
    /\ stats.articles_skipped = 2
    /\ LET path == <<"a.b", Md5(U1), ".json">>
       IN  /\ path \in DOMAIN out_files
           /\ out_files[path].data.title = "T1"
           /\ out_files[path].data.first_seen_timestamp_gmt = 100

\* Files of the current source directory that the loop does not pass over.
ProcessedFiles ==
    {f \in DOMAIN source_dirs[source_dir] : ~ IsSkipped(f)}

\* C18: batch normalization never aborts because of one bad input: a file
\* that is not a JSON array, an item that is not an object and a post that
\* cannot be normalized are recorded as errors, every remaining file and
\* article is still processed, and the run's summary is written.
C18_BatchNeverAborts ==
    /\ npc # "aborted"
    /\ (npc = "idle" /\ listing = {} /\ stats.files_processed > 0) =>
          /\ stats.files_processed = Cardinality(ProcessedFiles)
          /\ NormSummaryName \in DOMAIN source_dirs[source_dir]
          /\ source_dirs[source_dir][NormSummaryName].stats = stats

\* ================================================ extract_json_from_content
\* The JSON array text that raw_content wraps.
WrappedText ==
    CHOOSE a \in JsonArrays :
        \E o \in TagRuns(OpenTags), c \in TagRuns(CloseTags),
           sep \in Separators : raw_content = Wrap(o, c, sep, a)

\* C20: for every JSON array text wrapped in opening HTML tags before it
\* and closing HTML tags after it, the extractor returns the same parsed
\* structure as parsing the bare JSON text.
C20_WrappedArrayRoundTrip ==
    extracted.kind # "none" =>
        /\ extracted.kind = "ok"
        /\ extracted.value = json_loads(WrappedText).value

\* ------------------------------------------------------------ tabs (C21)
\* The positions of the driver between browser.get and the end of the
\* finally block of the same item, in either call of the driver.
InsideItem == pc \in {"except", "finally", "test_except", "test_finally"}

InMainPass == pc \in {"loop", "try", "except", "finally"}

\* The work items of domain d carrying page number p.
ItemsOf(d, p) ==
    {k \in 1..Len(url_metadata) :
        url_metadata[k][2] = d /\ url_metadata[k][3] = p}

\* The lines of the domains file that name d.
EntriesOf(d) == {k \in 1..Len(domains) : domains[k] = d}

\* No item above page 20, and for every page number at most one item per
\* initial entry of the domain: at most 20 items per initial entry.
WorklistBounded ==
    /\ Len(urls) = Len(url_metadata)
    /\ \A k \in 1..Len(url_metadata) :
          url_metadata[k][3] \in 1..MAX_PAGES_PER_DOMAIN
    /\ \A d \in Range(domains) : \A p \in 1..MAX_PAGES_PER_DOMAIN :
          Cardinality(ItemsOf(d, p)) <= Cardinality(EntriesOf(d))
    /\ Len(urls) <= MAX_PAGES_PER_DOMAIN * Len(domains)

\* The driver returns only when every item of the worklist was processed.
StopsWhenProcessed ==
    pc = "returned" => i = Len(urls) - 1 /\ Len(results) = Len(urls)

\* C22: the main collection pass always terminates: whatever the sites
\* return, no work item with a page number above 20 is ever enqueued, the
\* worklist grows to at most 20 items per initial domain entry, and the
\* driver stops once all of them are processed (the pass also ends when an
\* exception leaves the driver).
C22_MainPassTerminates ==
    /\ [](WorklistBounded /\ StopsWhenProcessed)
    /\ <>(~InMainPass)

\* The driver has returned from a worklist that one entry made grow to the
\* cap of 20 items.
C22_Witness ==
    /\ pc = "returned"
    /\ Len(domains) = 1
    /\ Len(urls) = MAX_PAGES_PER_DOMAIN
    /\ url_metadata[Len(urls)][3] = MAX_PAGES_PER_DOMAIN

\* ------------------------------------------------------------ delay (C23)
\* Indices of the items of the main pass that were fetched, and of those
\* after which the driver slept.
Fetched == {log[k][2] : k \in {n \in 1..Len(log) : log[n][1] = "get"}}

SleptAfter == {log[k][2] : k \in {n \in 1..Len(log) : log[n][1] = "sleep"}}

\* C23: the driver sleeps for the inter-request delay after an item exactly
\* when another item remains in the worklist at that moment, an item just
\* appended by that item's own callback included: there is a delay between
\* every two consecutive fetches and none after the final fetch.
C23_DelayBetweenFetches ==
    /\ (pc = "loop" /\ i >= 0) => (i \in SleptAfter <=> i < Len(urls) - 1)
    /\ \A j \in Fetched : j > 0 => j - 1 \in SleptAfter
    /\ ~InMainPass => \A j \in SleptAfter : j + 1 \in Fetched

\* -------------------------------------------------- seen ids (C24)
\* C24: after the processing of every work item, each domain's seen-id set
\* equals the set of ids of that domain's stored posts: no id is ever
\* marked as seen without its post being stored.
C24_SeenIdsAreStored ==
    pc = "loop" =>
        \A d \in Range(domains) :
            domain_data[d].post_ids = IdsOf(domain_data[d].posts)

\* ------------------------------------------------ worklist shape (C25)
DistinctDomains == Cardinality(Range(domains)) = Len(domains)

\* Positions in the worklist of the items of domain d, and those among
\* them that the driver has not yet taken up (the item at hand counts as
\* taken up once its try block has run).
PositionsOf(d) == {k \in 1..Len(url_metadata) : url_metadata[k][2] = d}

Unprocessed(d) ==
    {k \in PositionsOf(d) : k > i + 1 \/ (k = i + 1 /\ pc = "try")}

\* The items of d carry the pages 1, 2, ..., k in worklist order.
ConsecutivePages(d) ==
    LET n == Cardinality(PositionsOf(d))
    IN  /\ \A k \in PositionsOf(d) : url_metadata[k][3] \in 1..n
        /\ \A k1, k2 \in PositionsOf(d) :
              k1 < k2 => url_metadata[k1][3] < url_metadata[k2][3]

\* Every item above page 1 follows an item of the page before it whose
\* on_success returned.
AfterHandledPage(d) ==
    \A k \in PositionsOf(d) :
        url_metadata[k][3] > 1 =>
            \E j \in PositionsOf(d) :
                /\ j < k
                /\ url_metadata[j][3] = url_metadata[k][3] - 1
                /\ <<"on_success", j - 1>> \in Range(log)
                /\ <<"on_error", j - 1>> \notin Range(log)

\* C25: with pairwise-distinct input domains, at every moment of the main
\* pass the worklist holds at most one unprocessed item per domain, the
\* items of a domain carry the consecutive page numbers 1, 2, ..., k in
\* worklist order with no page number repeated, and page N+1 is fetched
\* only after page N was handled successfully.
C25_OneChainPerDomain ==
    (DistinctDomains /\ InMainPass) =>
        \A d \in Range(domains) :
            /\ Cardinality(Unprocessed(d)) <= 1
            /\ ConsecutivePages(d)
            /\ AfterHandledPage(d)

\* Two sites are listed; the first has reached page 3 while the item of
\* the second is in the worklist between its pages 1 and 2.
C25_Witness ==
    /\ DistinctDomains /\ Len(domains) = 2
    /\ pc = "try"
    /\ Cardinality(PositionsOf(domains[1])) = 3
    /\ Cardinality(Unprocessed(domains[1])) = 1
    /\ Unprocessed(domains[2]) = {}

\* ------------------------------------------------ artifact files (C26)
\* The files a collection run and a normalization run write into the
\* collection directory beside the per-domain arrays.
ArtifactNames == {CollectionSummaryName, NormSummaryName, SiteNotesName}

\* The files of the current source directory that hold collected posts, as
\* far as their names tell.
InputFiles ==
    {f \in DOMAIN source_dirs[source_dir] :
        EndsWithJson(f) /\ f \notin ArtifactNames}

\* Every file of the listing was visited: the run is about to write its
\* summary.
RunOver == npc = "files" /\ listing = {}

ErrorsOf(msg) ==
    {k \in 1..Len(stats.errors_list) : stats.errors_list[k] = msg}

\* C26: batch normalization ignores the collection run's own artifact
\* files in the source directory (_collection_summary.json,
\* _normalization_summary.json and wordpress-site-notes.json): none of them
\* is counted in files_processed or recorded as an error, so the run counts
\* the input files only and records one decoding error for each input file
\* that is not an array.
C26_ArtifactsIgnored ==
    RunOver =>
        /\ stats.files_processed = Cardinality(InputFiles)
        /\ Cardinality(ErrorsOf("not a list")) =
              Cardinality({f \in InputFiles :
                              source_dirs[source_dir][f].kind # "list"})

\* ------------------------------------------------------ accounting (C27)
\* The number of array items of the files in fs.
RECURSIVE ItemCount(_)
ItemCount(fs) ==
    IF fs = {} THEN 0
    ELSE LET f == CHOOSE x \in fs : TRUE
         IN  Len(source_dirs[source_dir][f].items) + ItemCount(fs \ {f})

\* The files the run read as arrays, and the items it read from them.
ValidFiles ==
    {f \in ProcessedFiles : source_dirs[source_dir][f].kind = "list"}

ItemsRead == ItemCount(ValidFiles)

PerItemErrors == stats.errors - Cardinality(ErrorsOf("not a list"))

\* C27: when a batch normalization completes, errors equals the number of
\* entries of the error list, and every array item read from a valid input
\* file is counted in exactly one of articles_new, articles_skipped or
\* errors: articles_new + articles_skipped + per-item errors equals the
\* number of items read.
C27_EveryItemCountedOnce ==
    RunOver =>
        /\ stats.errors = Len(stats.errors_list)
        /\ stats.articles_new + stats.articles_skipped + PerItemErrors
              = ItemsRead

\* A run over "run1" is complete that wrote an article, skipped one that
\* an earlier run had written, and recorded errors of items and of a file.
C27_Witness ==
    /\ RunOver
    /\ source_dir = "run1"
    /\ stats.articles_new = 1
    /\ stats.articles_skipped = 1
    /\ PerItemErrors = 2
    /\ stats.errors = 3
====
